---- MODULE Spec2Model ----
(***************************************************************************)
(* A model of voidring's BaseRocksDB (src/src/voidring/base_rocksdb.py):   *)
(* the ordered key-value store wrapper, its bounded/prefixed iteration in  *)
(* both directions and the cursor pagination built on it, and of the index *)
(* maintainer that the repository layers on top of it.                     *)
(*                                                                         *)
(* A Python str is a sequence of code points (naturals); str comparison is *)
(* code-point lexicographic.  An Optional[...] argument is a sequence of   *)
(* length 0 (None) or 1 (the value).                                       *)
(***************************************************************************)
EXTENDS Integers, Sequences, FiniteSets, TLC

\* ------------------------------------------------------------------ bounds
\* the most entries the store holds
MaxStore == 3
\* the largest page_size a caller asks for
MaxPageSize == 2

\* ------------------------------------------------------- program constants
\* '\0', the suffix _decode_cursor appends
NUL == 0
\* the largest code point chr() accepts: chr(MaxCodePoint + 1) raises ValueError
MaxCodePoint == 1114111
\* an ordinary letter ('a')
Letter == 97

None == <<>>
Some(x) == <<x>>

\* ------------------------------------------------------------ Python str
Alphabet == {NUL, Letter, MaxCodePoint}

RECURSIVE StrsOfLen(_)
StrsOfLen(n) ==
  IF n = 0 THEN {<<>>}
  ELSE {Append(s, c) : s \in StrsOfLen(n - 1), c \in Alphabet}

\* str.__lt__: a < b
StrLt(a, b) ==
  \E i \in 1..Len(b) :
    /\ i - 1 <= Len(a)
    /\ \A j \in 1..(i - 1) : a[j] = b[j]
    /\ (i > Len(a) \/ a[i] < b[i])

StrLe(a, b) == a = b \/ StrLt(a, b)

\* str.startswith
StartsWith(k, p) == Len(p) <= Len(k) /\ SubSeq(k, 1, Len(p)) = p

Min(a, b) == IF a < b THEN a ELSE b

Take(s, n) == SubSeq(s, 1, Min(n, Len(s)))

Last(s) == s[Len(s)]

\* --------------------------------------------------------------- the store
\* The keys a caller stores: every str of up to two code points of the alphabet
\* (the empty key, keys that extend one another, keys with '\0' and with the
\* largest code point).  Arguments (prefix, start, end) are the strs of up to one.
KeyLens == 0..2
ArgLens == 0..1
Keys == UNION {StrsOfLen(n) : n \in KeyLens}
ArgStrs == UNION {StrsOfLen(n) : n \in ArgLens}
OptArgs == {None} \cup {Some(x) : x \in ArgStrs}
\* the values put under them
Values == {"v1"}

\* The least key of a non-empty set of keys.
MinKey(S) == CHOOSE k \in S : \A j \in S : StrLe(k, j)

\* The keys of the store in RocksDB's iteration order (ascending).
RECURSIVE SortedKeys(_)
SortedKeys(S) ==
  IF S = {} THEN <<>>
  ELSE LET m == MinKey(S) IN <<m>> \o SortedKeys(S \ {m})

\* Rdict iterator positions over ks: 1..Len(ks) are valid, 0 and Len(ks)+1 are not.
Valid(ks, i) == 1 <= i /\ i <= Len(ks)

\* Seek placing the iterator after k: the first entry whose key is > k.
SeekStrict(ks, k) ==
  LET gt == {i \in 1..Len(ks) : StrLt(k, ks[i])}
  IN IF gt = {} THEN Len(ks) + 1 ELSE CHOOSE i \in gt : \A j \in gt : i <= j

\* it.seek(k): the first entry whose key is >= k
Seek(ks, k) ==
  LET ge == {i \in 1..Len(ks) : StrLe(k, ks[i])}
  IN IF ge = {} THEN Len(ks) + 1 ELSE CHOOSE i \in ge : \A j \in ge : i <= j

\* Reverse positioning done with seek: the first entry whose key is >= k.
SeekForPrevAsSeek(ks, k) ==
  LET ge == {i \in 1..Len(ks) : StrLe(k, ks[i])}
  IN IF ge = {} THEN Len(ks) + 1 ELSE CHOOSE i \in ge : \A j \in ge : i <= j

\* it.seek_for_prev(k): the last entry whose key is <= k
SeekForPrev(ks, k) ==
  LET le == {i \in 1..Len(ks) : StrLe(ks[i], k)}
  IN IF le = {} THEN 0 ELSE CHOOSE i \in le : \A j \in le : j <= i

SeekToFirst(ks) == 1

SeekToLast(ks) == Len(ks)

\* ------------------------------------------------------- BaseRocksDB.iter
\* Results: err is "none" or the exception that left the call; out is what the
\* caller received before that.
Ok(out) == [err |-> "none", out |-> out]
Raise(e) == [err |-> e, out |-> <<>>]

\* `prefix is not None and prefix != ""`
HasPrefix(prefix) == prefix # None /\ prefix[1] # <<>>

\* chr(ord(prefix[-1]) + 1) is defined only up to MaxCodePoint
PrefixEndRaises(p) == Last(p) + 1 > MaxCodePoint

\* prefix[:-1] + chr(ord(prefix[-1]) + 1)
PrefixEnd(p) == Append(SubSeq(p, 1, Len(p) - 1), Last(p) + 1)

\* The bounds a prefix supplies when the caller gave none.
PrefixBounds(a) ==
  IF HasPrefix(a.prefix)
  THEN [a EXCEPT !.start = IF a.start = None THEN a.prefix ELSE a.start,
                 !.end = IF a.end = None THEN Some(PrefixEnd(a.prefix[1])) ELSE a.end]
  ELSE a

\* Bounds left as the caller gave them.
NoSwapBounds(a) == a

\* `if reverse and start is not None and end is not None and start > end: swap`
SwapBounds(a) ==
  IF a.reverse /\ a.start # None /\ a.end # None /\ StrLt(a.end[1], a.start[1])
  THEN [a EXCEPT !.start = a.end, !.end = a.start]
  ELSE a

\* Where the iterator is placed before the loop.
InitialPos(ks, a) ==
  IF a.reverse
  THEN IF a.end # None THEN SeekForPrev(ks, a.end[1]) ELSE SeekToLast(ks)
  ELSE IF a.start # None THEN Seek(ks, a.start[1]) ELSE SeekToFirst(ks)

\* The `while it.valid()` loop from position i: the (key, value) pairs yielded.
\* Reading the value of a key in `fail` raises inside the try block, whose
\* handler logs the error and leaves the loop.
RECURSIVE IterLoop(_, _, _, _, _)
IterLoop(store, ks, i, a, fail) ==
  IF ~Valid(ks, i) THEN <<>>
  ELSE
    LET key == ks[i]
        step == IF a.reverse THEN i - 1 ELSE i + 1
        rest == IterLoop(store, ks, step, a, fail)
    IN
      IF a.reverse /\ a.start # None /\ StrLt(key, a.start[1]) THEN <<>>
      ELSE IF a.reverse /\ a.end # None /\ ~StrLt(key, a.end[1]) THEN rest
      ELSE IF ~a.reverse /\ a.end # None /\ ~StrLt(key, a.end[1]) THEN <<>>
      ELSE IF ~a.reverse /\ a.start # None /\ StrLt(key, a.start[1]) THEN rest
      ELSE IF HasPrefix(a.prefix) /\ ~StartsWith(key, a.prefix[1])
        THEN IF a.reverse
             THEN IF StrLt(key, a.prefix[1]) THEN <<>> ELSE rest
             ELSE IF StrLt(a.prefix[1], key) THEN <<>> ELSE rest
      ELSE IF key \in fail THEN <<>>
      ELSE <<<<key, store[key]>>>> \o rest

\* it.prev() / it.next() left out before `continue`
SkipStays(i, reverse) == i

\* `it.prev(); continue` in reverse, `it.next(); continue` forward
Skip(i, reverse) == IF reverse THEN i - 1 ELSE i + 1

\* One pass through the body of the `while it.valid()` loop at a valid position
\* i: the loop is left (break), the entry is passed over (continue), or the
\* entry is yielded and the iterator moved on.
LoopStep(store, ks, i, a) ==
  LET key == ks[i]
      Break == [kind |-> "break", pos |-> i, out |-> <<>>]
      Continue == [kind |-> "continue", pos |-> Skip(i, a.reverse), out |-> <<>>]
      Yield == [kind |-> "yield", pos |-> IF a.reverse THEN i - 1 ELSE i + 1,
                out |-> <<<<key, store[key]>>>>]
  IN
    IF a.reverse /\ a.start # None /\ StrLt(key, a.start[1]) THEN Break
    ELSE IF a.reverse /\ a.end # None /\ ~StrLt(key, a.end[1]) THEN Continue
    ELSE IF ~a.reverse /\ a.end # None /\ ~StrLt(key, a.end[1]) THEN Break
    ELSE IF ~a.reverse /\ a.start # None /\ StrLt(key, a.start[1]) THEN Continue
    ELSE IF HasPrefix(a.prefix) /\ ~StartsWith(key, a.prefix[1])
      THEN IF a.reverse
           THEN IF StrLt(key, a.prefix[1]) THEN Break ELSE Continue
           ELSE IF StrLt(a.prefix[1], key) THEN Break ELSE Continue
    ELSE Yield

\* list(db.iter(prefix=, start=, end=, reverse=)) on the store
Iter(store, a, fail) ==
  IF HasPrefix(a.prefix) /\ a.end = None /\ PrefixEndRaises(a.prefix[1])
  THEN Raise("ValueError")
  ELSE LET b == SwapBounds(PrefixBounds(a))
           ks == SortedKeys(DOMAIN store)
       IN Ok(IterLoop(store, ks, InitialPos(ks, b), b, fail))

\* db.items(limit=) if islice were left out
ItemsUnlimited(store, a, limit, fail) == Iter(store, a, fail)

\* db.items(limit=): list(islice(iterator, limit)), or the whole list
Items(store, a, limit, fail) ==
  LET r == Iter(store, a, fail)
  IN IF limit = None THEN r
     ELSE IF limit[1] = 0 THEN Ok(<<>>)   \* islice never starts the generator
     ELSE IF r.err # "none" THEN r
     ELSE Ok(Take(r.out, limit[1]))

\* (k for k, _ in ...) and (v for _, v in ...)
KeyOfItem(out) == [i \in 1..Len(out) |-> out[i][1]]
ValueOfItem(out) == [i \in 1..Len(out) |-> out[i][2]]

\* db.keys(limit=): the keys of iter, through islice when a limit is given
KeysList(store, a, limit, fail) ==
  LET r == Iter(store, a, fail)
  IN IF limit # None /\ limit[1] = 0 THEN Ok(<<>>)
     ELSE IF r.err # "none" THEN r
     ELSE IF limit = None THEN Ok(KeyOfItem(r.out))
     ELSE Ok(Take(KeyOfItem(r.out), limit[1]))

\* db.values(limit=): the values of iter, through islice when a limit is given
ValuesList(store, a, limit, fail) ==
  LET r == Iter(store, a, fail)
  IN IF limit # None /\ limit[1] = 0 THEN Ok(<<>>)
     ELSE IF r.err # "none" THEN r
     ELSE IF limit = None THEN Ok(ValueOfItem(r.out))
     ELSE Ok(Take(ValueOfItem(r.out), limit[1]))

\* --------------------------------------------------------- cursor encoding
\* str.encode(): the UTF-8 bytes of one code point
Utf8Char(c) ==
  IF c < 128 THEN <<c>>
  ELSE IF c < 2048 THEN <<192 + (c \div 64), 128 + (c % 64)>>
  ELSE IF c < 65536
    THEN <<224 + (c \div 4096), 128 + ((c \div 64) % 64), 128 + (c % 64)>>
  ELSE <<240 + (c \div 262144), 128 + ((c \div 4096) % 64),
         128 + ((c \div 64) % 64), 128 + (c % 64)>>

RECURSIVE Utf8Encode(_)
Utf8Encode(s) ==
  IF s = <<>> THEN <<>> ELSE Utf8Char(Head(s)) \o Utf8Encode(Tail(s))

\* bytes.decode(): the code points of well-formed UTF-8
RECURSIVE Utf8Decode(_)
Utf8Decode(b) ==
  IF b = <<>> THEN <<>>
  ELSE IF b[1] < 128 THEN <<b[1]>> \o Utf8Decode(SubSeq(b, 2, Len(b)))
  ELSE IF b[1] < 224
    THEN <<(b[1] - 192) * 64 + (b[2] - 128)>> \o Utf8Decode(SubSeq(b, 3, Len(b)))
  ELSE IF b[1] < 240
    THEN <<(b[1] - 224) * 4096 + (b[2] - 128) * 64 + (b[3] - 128)>>
         \o Utf8Decode(SubSeq(b, 4, Len(b)))
  ELSE <<(b[1] - 240) * 262144 + (b[2] - 128) * 4096 + (b[3] - 128) * 64
         + (b[4] - 128)>> \o Utf8Decode(SubSeq(b, 5, Len(b)))

\* A base64 text is the sequence of its symbols' indices in the URL-safe
\* alphabet (0..63); B64Pad is '='.
B64Pad == 64

\* base64.urlsafe_b64encode
RECURSIVE B64Encode(_)
B64Encode(b) ==
  IF b = <<>> THEN <<>>
  ELSE IF Len(b) = 1
    THEN <<b[1] \div 4, (b[1] % 4) * 16, B64Pad, B64Pad>>
  ELSE IF Len(b) = 2
    THEN <<b[1] \div 4, (b[1] % 4) * 16 + (b[2] \div 16), (b[2] % 16) * 4, B64Pad>>
  ELSE <<b[1] \div 4, (b[1] % 4) * 16 + (b[2] \div 16),
         (b[2] % 16) * 4 + (b[3] \div 64), b[3] % 64>>
       \o B64Encode(SubSeq(b, 4, Len(b)))

\* base64.urlsafe_b64decode of a well-formed text
RECURSIVE B64Decode(_)
B64Decode(t) ==
  IF t = <<>> THEN <<>>
  ELSE IF t[3] = B64Pad THEN <<t[1] * 4 + (t[2] \div 16)>>
  ELSE IF t[4] = B64Pad
    THEN <<t[1] * 4 + (t[2] \div 16), (t[2] % 16) * 16 + (t[3] \div 4)>>
  ELSE <<t[1] * 4 + (t[2] \div 16), (t[2] % 16) * 16 + (t[3] \div 4),
         (t[3] % 4) * 64 + t[4]>>
       \o B64Decode(SubSeq(t, 5, Len(t)))

\* _encode_cursor: base64.urlsafe_b64encode(str(key).encode()).decode()
EncodeCursor(key) == B64Encode(Utf8Encode(key))

\* _decode_cursor: the decoded key + '\0'
DecodeCursor(cursor) == Append(Utf8Decode(B64Decode(cursor)), NUL)

\* `if cursor:` : neither None nor the empty string
Truthy(cursor) == cursor # None /\ cursor[1] # <<>>

\* --------------------------------------------------- BaseRocksDB.paginate
\* kw are the keyword arguments passed on to items (prefix, start, end, reverse).
PaginateStart(cursor, kw) ==
  IF Truthy(cursor) THEN [kw EXCEPT !.start = Some(DecodeCursor(cursor[1]))] ELSE kw

\* has_more computed as len(items) >= page_size
HasMoreAtLeast(items, page_size) == Len(items) >= page_size

\* `has_more = len(items) > page_size`
HasMore(items, page_size) == Len(items) > page_size

PageItems(items, page_size) ==
  IF HasMore(items, page_size) THEN SubSeq(items, 1, page_size) ELSE items

\* A cursor returned whenever the page holds an item, the last page included.
NextCursorAlways(items, page_size) ==
  IF PageItems(items, page_size) # <<>>
  THEN Some(EncodeCursor(Last(PageItems(items, page_size))[1]))
  ELSE None

\* `if has_more and items: next_cursor = self._encode_cursor(items[-1][0])`
NextCursor(items, page_size) ==
  IF HasMore(items, page_size) /\ PageItems(items, page_size) # <<>>
  THEN Some(EncodeCursor(Last(PageItems(items, page_size))[1]))
  ELSE None

Paginate(store, page_size, cursor, kw, fail) ==
  LET r == Items(store, PaginateStart(cursor, kw), Some(page_size + 1), fail)
  IN IF r.err # "none"
     THEN [err |-> r.err, items |-> <<>>, has_more |-> FALSE, next_cursor |-> None]
     ELSE [err |-> "none",
           items |-> PageItems(r.out, page_size),
           has_more |-> HasMore(r.out, page_size),
           next_cursor |-> NextCursor(r.out, page_size)]

\* ------------------------------------------- put, delete, get, key_exist
\* The keys and values of the calls on single entries, and the default a caller
\* passes to get.
MapKeys == {<<Letter>>, <<Letter, Letter>>}
MapValues == {"v1", "v2"}
Defaults == {None, Some("default")}

\* A put that writes only a key that is not stored yet.
RdictPutIfAbsent(store, key, value) ==
  [k \in DOMAIN store \cup {key} |-> IF k \in DOMAIN store THEN store[k] ELSE value]

\* target.put(key, value, options)
RdictPut(store, key, value) ==
  [k \in DOMAIN store \cup {key} |-> IF k = key THEN value ELSE store[k]]

\* del target[key]
RdictDelete(store, key) == [k \in DOMAIN store \ {key} |-> store[k]]

\* What Rdict.get does for a key that is not stored: it returns its `default`
\* argument; the wrapper also provides for a KeyError.
MissOutcomes == {"default", "KeyError"}

\* target.get(key, default, options) of a single key
RdictGet(store, key, default, miss) ==
  IF key \in DOMAIN store THEN Ok(Some(store[key]))
  ELSE IF miss = "KeyError" THEN Raise("KeyError")
  ELSE Ok(default)

\* target.get(keys, default, options) of a list of keys: one value per key,
\* None for a key that is not stored
RdictGetList(store, keys) ==
  Ok([i \in 1..Len(keys) |->
        IF keys[i] \in DOMAIN store THEN Some(store[keys[i]]) ELSE None])

\* A get that lets the KeyError through.
GetUncaught(store, key, default, miss) == RdictGet(store, key, default, miss)

\* db.get(key, default=) / db[key]: `except KeyError: return default`
Get(store, key, default, miss) ==
  LET r == RdictGet(store, key, default, miss)
  IN IF r.err = "KeyError" THEN Ok(default) ELSE r

\* target.key_may_exist(key, True, options): the answers (existing, value) the
\* store may give.  False only for a key that is not stored; True with the value
\* when the value was at hand, True without a value otherwise.
KeyMayExist(store, key) ==
  IF key \in DOMAIN store
  THEN {<<TRUE, Some(store[key])>>, <<TRUE, None>>}
  ELSE {<<FALSE, None>>, <<TRUE, None>>}

\* db.key_exist(key) when key_may_exist answers ans.  In the last branch
\* target.get(key, options) passes options (None) as Rdict.get's default.
KeyExist(store, key, ans, miss) ==
  IF ans[1] /\ ans[2] # None THEN <<TRUE, ans[2]>>
  ELSE IF ~ans[1] THEN <<FALSE, None>>
  ELSE LET r == RdictGet(store, key, None, miss)
       IN IF r.err = "KeyError" THEN <<FALSE, None>> ELSE <<TRUE, r.out>>

\* ------------------------------------------------- WriteBatch and write
\* the most operations added to one batch
MaxBatch == 2

\* batch.put(key, value) and batch.delete(key)
BatchOps ==
  {<<"put", k, v>> : k \in MapKeys, v \in MapValues}
    \cup {<<"delete", k>> : k \in MapKeys}

ApplyOp(store, op) ==
  IF op[1] = "put" THEN RdictPut(store, op[2], op[3]) ELSE RdictDelete(store, op[2])

\* A batch applied from its last operation to its first.
RECURSIVE ApplyBatchReversed(_, _)
ApplyBatchReversed(store, ops) ==
  IF ops = <<>> THEN store
  ELSE ApplyBatchReversed(ApplyOp(store, ops[Len(ops)]), SubSeq(ops, 1, Len(ops) - 1))

\* self._db.write(batch): the operations in the order they were added
RECURSIVE ApplyBatch(_, _)
ApplyBatch(store, ops) ==
  IF ops = <<>> THEN store ELSE ApplyBatch(ApplyOp(store, Head(ops)), Tail(ops))

\* An operation applied to the store at the moment it is added to the batch.
BatchAppendApplied(store, ops, op) ==
  [store |-> ApplyOp(store, op), ops |-> Append(ops, op)]

\* batch.put / batch.delete: the operation goes into the batch, the store is
\* not touched
BatchAppend(store, ops, op) == [store |-> store, ops |-> Append(ops, op)]

\* ------------------------------------------------------------------- state
VARIABLES
  db,    \* the default column family: a function from the stored keys to values
  call,  \* the caller's last call, with its arguments and result, if it holds one
  pg,    \* the caller's pagination: the last paginate call and the items so far
  wb,    \* the WriteBatch the caller is building, if any
  recs,  \* the primary records of the indexed collection, by primary key
  idx,   \* the index partition: the set of index entries
  wr,    \* per writer thread: its upsert/delete/rebuild in progress, if any
  hist,  \* what has happened so far: whether calls overlapped
  reg    \* the registered field paths of the collection

vars == <<db, call, pg, wb, recs, idx, wr, hist, reg>>
storeVars == <<db, call, pg, wb>>
indexVars == <<recs, idx, wr, hist, reg>>

NoCall == [op |-> "none"]
NoPages == [op |-> "none"]
NoBatch == [op |-> "none"]
Idle == call = NoCall /\ pg = NoPages

IterArgs == [prefix : OptArgs, start : OptArgs, end : OptArgs, reverse : BOOLEAN]
PageArgs == [prefix : OptArgs, start : {None}, end : {None}, reverse : BOOLEAN]
\* page_size, which paginate accepts from 0 on
PageSizes == 0..MaxPageSize
\* a pagination is followed for at most this many pages
MaxPages == MaxStore + 2

\* the store after a read if the read consumed the lowest entry
AfterReadConsumes(store) ==
  IF DOMAIN store = {} THEN store ELSE RdictDelete(store, MinKey(DOMAIN store))

\* the store after a read call (get, key_exist, iter, items, keys, values,
\* paginate): these call only it.seek*/valid/key/value/next/prev and Rdict.get,
\* and assign nothing on self
AfterRead(store) == store

StoreInit == db = <<>> /\ call = NoCall /\ pg = NoPages /\ wb = NoBatch

\* db.put(key, value) / db[key] = value
Put(key, value) ==
  /\ Idle /\ wb = NoBatch
  /\ key \in DOMAIN db \/ Cardinality(DOMAIN db) < MaxStore
  /\ db' = RdictPut(db, key, value)
  /\ call' = [op |-> "put", key |-> key, value |-> value, before |-> db]
  /\ UNCHANGED <<pg, wb, indexVars>>

\* db.delete(key) / del db[key]
Delete(key) ==
  /\ Idle /\ wb = NoBatch
  /\ db' = RdictDelete(db, key)
  /\ call' = [op |-> "delete", key |-> key, before |-> db]
  /\ UNCHANGED <<pg, wb, indexVars>>

\* list(db.iter(**a)) while reading the values of the keys in `fail` fails
IterCall(a, fail) ==
  /\ Idle
  /\ call' = [op |-> "iter", a |-> a, fail |-> fail, res |-> Iter(db, a, fail),
              before |-> db]
  /\ db' = AfterRead(db)
  /\ UNCHANGED <<pg, wb, indexVars>>

\* the caller drops the result it holds
Return ==
  /\ call # NoCall
  /\ call' = NoCall
  /\ UNCHANGED <<db, pg, wb, indexVars>>

\* db.paginate(page_size=, cursor=, **kw): a first page (no cursor), or a page
\* resumed from the cursor of key ck[1] that the caller kept
PaginateCall(page_size, ck, kw, fail) ==
  /\ Idle
  /\ LET cursor == IF ck = None THEN None ELSE Some(EncodeCursor(ck[1]))
         r == Paginate(db, page_size, cursor, kw, fail)
     IN pg' = [op |-> "paginate", page_size |-> page_size, cursor |-> cursor,
               first |-> ck, ckey |-> ck, kw |-> kw, fail |-> fail, res |-> r,
               acc |-> r.items, pages |-> 1, before |-> db,
               kept |-> DOMAIN db]
  /\ db' = AfterRead(db)
  /\ UNCHANGED <<call, wb, indexVars>>

\* the next page: paginate again with the previous result's next_cursor
PaginateNext(fail) ==
  /\ pg # NoPages
  /\ pg.res.err = "none" /\ pg.res.has_more
  /\ pg.pages < MaxPages
  /\ LET r == Paginate(db, pg.page_size, pg.res.next_cursor, pg.kw, fail)
     IN pg' = [pg EXCEPT !.cursor = pg.res.next_cursor,
                         !.ckey = IF pg.res.items = <<>> THEN None
                                  ELSE Some(Last(pg.res.items)[1]),
                         !.res = r,
                         !.fail = pg.fail \cup fail,
                         !.acc = pg.acc \o r.items,
                         !.pages = pg.pages + 1,
                         !.before = db]
  /\ db' = AfterRead(db)
  /\ UNCHANGED <<call, wb, indexVars>>

\* db.put(key, value) between two pages of the pagination the caller follows;
\* pg.kept are the keys stored ever since its first page was asked
PutBetween(key, value) ==
  /\ pg # NoPages /\ call = NoCall /\ wb = NoBatch
  /\ key \in DOMAIN db \/ Cardinality(DOMAIN db) < MaxStore
  /\ db' = RdictPut(db, key, value)
  /\ UNCHANGED <<call, pg, wb, indexVars>>

\* db.delete(key) between two pages of the pagination the caller follows
DeleteBetween(key) ==
  /\ pg # NoPages /\ call = NoCall /\ wb = NoBatch
  /\ db' = RdictDelete(db, key)
  /\ pg' = [pg EXCEPT !.kept = pg.kept \ {key}]
  /\ UNCHANGED <<call, wb, indexVars>>

\* the caller stops paginating
PaginateEnd ==
  /\ pg # NoPages
  /\ pg' = NoPages
  /\ UNCHANGED <<db, call, wb, indexVars>>

\* db.get(key, default=) / db[key]
GetCall(key, default, miss) ==
  /\ Idle
  /\ call' = [op |-> "get", key |-> key, default |-> default, miss |-> miss,
              res |-> Get(db, key, default, miss), before |-> db]
  /\ db' = AfterRead(db)
  /\ UNCHANGED <<pg, wb, indexVars>>

\* db.get([key, ...])
GetListCall(keys) ==
  /\ Idle
  /\ call' = [op |-> "getlist", keys |-> keys, res |-> RdictGetList(db, keys),
              before |-> db]
  /\ db' = AfterRead(db)
  /\ UNCHANGED <<pg, wb, indexVars>>

\* db.key_exist(key) while key_may_exist answers ans
KeyExistCall(key, ans, miss) ==
  /\ Idle
  /\ ans \in KeyMayExist(db, key)
  /\ call' = [op |-> "key_exist", key |-> key, ans |-> ans, miss |-> miss,
              res |-> KeyExist(db, key, ans, miss), before |-> db]
  /\ db' = AfterRead(db)
  /\ UNCHANGED <<pg, wb, indexVars>>

\* batch = WriteBatch()
BatchNew ==
  /\ Idle /\ wb = NoBatch
  /\ wb' = [op |-> "batch", base |-> db, ops |-> <<>>]
  /\ UNCHANGED <<db, call, pg, indexVars>>

\* batch.put(key, value) / batch.delete(key)
BatchAdd(op) ==
  /\ Idle /\ wb # NoBatch
  /\ Len(wb.ops) < MaxBatch
  /\ LET r == BatchAppend(db, wb.ops, op)
     IN /\ db' = r.store
        /\ wb' = [wb EXCEPT !.ops = r.ops]
  /\ UNCHANGED <<call, pg, indexVars>>

\* an error before db.write(batch), or the batch is dropped: it is never written
BatchAbandon ==
  /\ Idle /\ wb # NoBatch
  /\ wb' = NoBatch
  /\ call' = [op |-> "abandon", ops |-> wb.ops, before |-> wb.base]
  /\ UNCHANGED <<db, pg, indexVars>>

\* db.write(batch)
Write ==
  /\ Idle /\ wb # NoBatch
  /\ db' = ApplyBatch(db, wb.ops)
  /\ wb' = NoBatch
  /\ call' = [op |-> "write", ops |-> wb.ops, before |-> db]
  /\ UNCHANGED <<pg, indexVars>>

\* db.items(**a, limit=), db.keys(**a, limit=) or db.values(**a, limit=)
ListCall(kind, a, limit) ==
  /\ Idle
  /\ call' = [op |-> kind, a |-> a, limit |-> limit, before |-> db,
              res |-> CASE kind = "items" -> Items(db, a, limit, {})
                        [] kind = "keys" -> KeysList(db, a, limit, {})
                        [] kind = "values" -> ValuesList(db, a, limit, {})]
  /\ db' = AfterRead(db)
  /\ UNCHANGED <<pg, wb, indexVars>>

\* list(db.iter(**a)) taken one loop step at a time: the bounds are derived and
\* the iterator is placed
ScanStart(a) ==
  /\ Idle
  /\ call' =
       IF HasPrefix(a.prefix) /\ a.end = None /\ PrefixEndRaises(a.prefix[1])
       THEN [op |-> "scan", a |-> a, b |-> a, pos |-> 0, out |-> <<>>,
             done |-> TRUE, err |-> "ValueError", steps |-> 0]
       ELSE LET b == SwapBounds(PrefixBounds(a))
            IN [op |-> "scan", a |-> a, b |-> b,
                pos |-> InitialPos(SortedKeys(DOMAIN db), b), out |-> <<>>,
                done |-> FALSE, err |-> "none", steps |-> 0]
  /\ UNCHANGED <<db, pg, wb, indexVars>>

\* the test `it.valid()` and, when it holds, one pass through the loop body
ScanStep ==
  /\ call # NoCall /\ call.op = "scan" /\ ~call.done
  /\ LET ks == SortedKeys(DOMAIN db)
     IN IF ~Valid(ks, call.pos)
        THEN call' = [call EXCEPT !.done = TRUE]
        ELSE LET r == LoopStep(db, ks, call.pos, call.b)
             IN call' = [call EXCEPT !.pos = r.pos,
                                     !.out = call.out \o r.out,
                                     !.done = (r.kind = "break"),
                                     !.steps = IF r.pos = call.pos THEN call.steps
                                               ELSE call.steps + 1]
  /\ UNCHANGED <<db, pg, wb, indexVars>>

\* the caller drops the result it holds; list() returns only once the generator
\* is exhausted (or has raised)
ScanReturn ==
  /\ call # NoCall
  /\ call.op = "scan" => call.done
  /\ call' = NoCall
  /\ UNCHANGED <<db, pg, wb, indexVars>>

\* the keys of the runs that follow one iteration step by step
ScanKeys == ArgStrs \cup {<<Letter, Letter>>}

\* the keys and arguments of the runs that write between pages
PagedKeys == {<<>>, <<Letter>>, <<Letter, Letter>>, <<MaxCodePoint>>}
ForwardPageArgs == {kw \in PageArgs : ~kw.reverse}

\* the keys and limits of the runs that read the store in every way
ReadKeys == {<<>>, <<Letter>>, <<Letter, Letter>>, <<MaxCodePoint>>}
Limits == {None} \cup {Some(n) : n \in 0..MaxPageSize}
ListKinds == {"items", "keys", "values"}

\* the keys a caller asks for in one get
KeyLists == [1..2 -> MapKeys \cup {<<NUL>>}]

\* a scan of the whole store
FullScan == [prefix |-> None, start |-> None, end |-> None, reverse |-> FALSE]

\* the keys whose cursor a caller may hold on to
CursorKeys == {None} \cup {Some(k) : k \in ArgStrs}

\* ------------------------------------------------------ index maintainer
\* The indexed collection of the tests: collection "users", indexed by primary
\* key ("#") and by the field "email", which a record may leave unset (None).
Collection == "users"
FieldPaths == {"#", "email"}
PKeys == {"user:1", "user:2"}
Records == [email : {None, Some("bob@example.com")}]
Writers == {"w1", "w2"}

\* extract(record, field_path): the value to index; "#" selects the primary key
Extract(record, key, path) ==
  IF path = "#" THEN Some(key)
  ELSE IF path \in DOMAIN record THEN record[path]
  ELSE None

\* encode(value): an unset value has its own reserved encoding
EncodeValue(v) == IF v = None THEN <<"none">> ELSE <<"text", v[1]>>

\* the composite index key of (collection, field_path, value, primary_key)
IndexKey(path, v, key) == <<"idx", Collection, path, EncodeValue(v), key>>

\* the index entries of a record stored at key, one per registered path
EntriesOf(record, key) ==
  {IndexKey(p, Extract(record, key, p), key) : p \in reg}

\* An upsert batch that deletes no old entry.
UpsertDeletesNothing(prev, record, key) == {}

\* upsert step 3, the deletes: every old entry whose encoded value differs from
\* the new entry's
UpsertDeletes(prev, record, key) ==
  IF prev = None THEN {}
  ELSE {IndexKey(p, Extract(prev[1], key, p), key) : p \in
          {q \in reg :
             EncodeValue(Extract(prev[1], key, q))
               # EncodeValue(Extract(record, key, q))}}

\* upsert steps 2-3: the batch built from the previous record read in step 1
UpsertBatch(prev, record, key) ==
  [deletes |-> UpsertDeletes(prev, record, key),
   puts |-> EntriesOf(record, key),
   key |-> key,
   record |-> Some(record)]

\* A delete batch that removes the primary record only.
DeleteBatchPrimaryOnly(prev, key) ==
  [deletes |-> {}, puts |-> {}, key |-> key, record |-> None]

\* delete: all index entries of the current record plus the primary record
DeleteBatch(prev, key) ==
  [deletes |-> IF prev = None THEN {} ELSE EntriesOf(prev[1], key),
   puts |-> {}, key |-> key, record |-> None]

\* A failed batch whose index deletes stay applied.
IndexAfterPartialBatch(entries, b) == entries \ b.deletes

\* the index entries after a batch that failed: the batch is aborted as a whole
IndexAfterFailedBatch(entries, b) == entries

\* A registration that indexes the records already stored.
RegisterBackfills(p) ==
  {IndexKey(p, Extract(recs[k], k, p), k) : k \in DOMAIN recs}

\* the index entries register_index itself writes: none
RegisterEntries(p) == {}

\* A range-delete that removes one entry only.
RebuildClearsOne(entries) ==
  LET mine == {e \in entries : e[3] \in reg}
  IN IF mine = {} THEN entries
     ELSE entries \ {CHOOSE e \in mine : \A x \in mine : x[3] = "#" => e[3] = "#"}

\* rebuild, first half: the entries under every registered path are cleared
RebuildCleared(entries) == {e \in entries : e[3] \notin reg}

\* rebuild, second half: the entries of every primary record, regenerated
RebuildEntries == UNION {EntriesOf(recs[k], k) : k \in DOMAIN recs}

\* get(key): the record stored at key, None when there is none
ReadRecord(key) == IF key \in DOMAIN recs THEN Some(recs[key]) ELSE None

\* lookup(collection, field_path, value): the (primary_key, record) of every
\* entry under the prefix (collection, field_path, encode(value))
Lookup(path, v) ==
  {<<e[5], ReadRecord(e[5])>> :
     e \in {x \in idx : x[3] = path /\ x[4] = EncodeValue(v)}}

NotWriting == [pc |-> "idle"]
InFlight(t) == wr[t] # NotWriting

\* no other writer has a call in progress
Alone(t) == \A u \in Writers \ {t} : ~InFlight(u)

\* nothing is remembered of the last call
NoLast == [op |-> "none"]

\* the paths a caller may ask register_index for, "sex" being no field of the
\* record shape
AskedPaths == FieldPaths \cup {"sex"}

\* register_index validates the path against the shape descriptor
ValidField(p) == p \in FieldPaths

\* A registration that replaces the registered paths.
RegisterPathsReplaces(paths, p) == {p}

\* register_index: the path is added to field_paths
RegisterPaths(paths, p) == paths \cup {p}

\* field_paths after a register_index rejected with InvalidFieldPath
RejectedPaths(paths, p) == paths

\* A delete that raises for a key holding no record.
DeleteOutcomeStrict(prev) == IF prev = None THEN "NotFound" ELSE "ok"

\* delete of a key holding no record is not an error
DeleteOutcome(prev) == "ok"

\* the state a tracked call started from is not tracked once calls overlap
Untracked == [tracked |-> FALSE]

\* What a call started by writer t adds to the history: another call is in
\* progress; one is in progress on the same key (a rebuild is on every key);
\* an upsert on the same key has read the same previous record.  What is
\* recorded of single-threaded runs is dropped once calls overlap.
Observe(t, op, key, prev) ==
  LET others == {u \in Writers \ {t} : InFlight(u)}
      same == {u \in others :
                 op = "rebuild" \/ wr[u].op = "rebuild" \/ wr[u].key = key}
      quiet == ~hist.concurrent /\ others = {}
  IN [concurrent |-> hist.concurrent \/ others # {},
      raced |-> hist.raced \/ same # {},
      samePrev |-> hist.samePrev
                   \/ (op = "upsert"
                       /\ \E u \in same : wr[u].op = "upsert" /\ wr[u].prev = prev),
      replaced |-> hist.replaced /\ quiet,
      removed |-> hist.removed /\ quiet,
      unbuilt |-> hist.unbuilt /\ quiet,
      pre |-> IF quiet THEN hist.pre ELSE {},
      backfilled |-> hist.backfilled /\ quiet,
      last |-> NoLast]

\* What the write of writer t adds to it, in a run without overlapping calls:
\* an upsert replaced a record by a different one; a delete removed a stored
\* record; the record at the key is no longer one written before a registration.
ObserveWrite(t) ==
  [hist EXCEPT
     !.replaced = ~hist.concurrent
                  /\ (hist.replaced
                      \/ (wr[t].op = "upsert" /\ wr[t].prev # None
                          /\ wr[t].prev # wr[t].record)),
     !.removed = ~hist.concurrent
                 /\ (hist.removed \/ (wr[t].op = "delete" /\ wr[t].prev # None)),
     !.pre = {x \in hist.pre : x[1] # wr[t].key},
     !.last = IF hist.last.op = "deleting"
              THEN [hist.last EXCEPT !.op = "deleted"]
              ELSE NoLast]

IndexInit ==
  /\ recs = <<>>
  /\ idx = {}
  /\ wr = [t \in Writers |-> NotWriting]
  /\ reg = {"#"}
  /\ hist = [concurrent |-> FALSE, raced |-> FALSE, samePrev |-> FALSE,
             replaced |-> FALSE, removed |-> FALSE,
             unbuilt |-> FALSE, pre |-> {}, backfilled |-> FALSE,
             last |-> NoLast]

\* register_index(collection, field_path): the path is added to the registered
\* paths (idempotent); in a single-threaded run the records stored at that
\* moment are remembered as written before the registration
RegisterIndex(t, p) ==
  /\ ~InFlight(t)
  /\ ValidField(p)
  /\ reg' = RegisterPaths(reg, p)
  /\ idx' = idx \cup RegisterEntries(p)
  /\ LET o == Observe(t, "register", Collection, None)
         quiet == ~o.concurrent
     IN hist' = [o EXCEPT
                   !.unbuilt = quiet /\ (o.unbuilt \/ (p \notin reg /\ recs # <<>>)),
                   !.pre = IF quiet /\ p \notin reg
                           THEN o.pre \cup {<<k, p>> : k \in DOMAIN recs}
                           ELSE o.pre,
                   !.last = IF Alone(t)
                            THEN [op |-> "registered", path |-> p, reg |-> reg]
                            ELSE NoLast]
  /\ UNCHANGED <<recs, wr, storeVars>>

\* register_collection(collection, shape): an idempotent upsert of the
\* collection's metadata, which keeps the registered paths
RegisterCollection(t) ==
  /\ ~InFlight(t)
  /\ reg' = reg \cup {"#"}
  /\ LET o == Observe(t, "register", Collection, None)
     IN hist' = [o EXCEPT
                   !.last = IF Alone(t)
                            THEN [op |-> "collection", reg |-> reg]
                            ELSE NoLast]
  /\ UNCHANGED <<recs, idx, wr, storeVars>>

\* register_index(collection, field_path) for a path that is no field of the
\* record shape: the call fails with InvalidFieldPath
RegisterIndexRejected(t, p) ==
  /\ ~InFlight(t)
  /\ ~ValidField(p)
  /\ reg' = RejectedPaths(reg, p)
  /\ LET o == Observe(t, "register", Collection, None)
     IN hist' = [o EXCEPT
                   !.last = IF Alone(t)
                            THEN [op |-> "rejected", path |-> p, reg |-> reg]
                            ELSE NoLast]
  /\ UNCHANGED <<recs, idx, wr, storeVars>>

\* upsert step 1: read the previous record stored at key
UpsertRead(t, key, record) ==
  /\ ~InFlight(t)
  /\ LET prev == ReadRecord(key)
     IN /\ wr' = [wr EXCEPT ![t] = [pc |-> "read", op |-> "upsert", key |-> key,
                                    record |-> Some(record), prev |-> prev]]
        /\ hist' = Observe(t, "upsert", key, prev)
  /\ UNCHANGED <<recs, idx, reg, storeVars>>

\* upsert steps 2-3: compute the old and new entries and build the batch
UpsertDiff(t) ==
  /\ InFlight(t) /\ wr[t].op = "upsert" /\ wr[t].pc = "read"
  /\ wr' = [wr EXCEPT ![t] =
              [pc |-> "batch", op |-> "upsert", key |-> wr[t].key,
               record |-> wr[t].record, prev |-> wr[t].prev,
               batch |-> UpsertBatch(wr[t].prev, wr[t].record[1], wr[t].key)]]
  /\ UNCHANGED <<recs, idx, hist, reg, storeVars>>

\* delete: read the current record and build the batch
DeleteRead(t, key) ==
  /\ ~InFlight(t)
  /\ LET prev == ReadRecord(key)
     IN /\ wr' = [wr EXCEPT ![t] =
                    IF DeleteOutcome(prev) = "ok"
                    THEN [pc |-> "batch", op |-> "delete", key |-> key,
                          record |-> None, prev |-> prev,
                          batch |-> DeleteBatch(prev, key)]
                    ELSE [pc |-> "failed", op |-> "delete", key |-> key,
                          prev |-> prev, err |-> DeleteOutcome(prev),
                          before |-> Untracked]]
        /\ hist' = [Observe(t, "delete", key, prev) EXCEPT
                      !.last = IF Alone(t) /\ prev = None
                               THEN [op |-> "deleting", key |-> key,
                                     recs |-> recs, idx |-> idx]
                               ELSE NoLast]
  /\ UNCHANGED <<recs, idx, reg, storeVars>>

\* upsert step 4 / delete: the store applies the batch as one atomic write
WriteBatch(t) ==
  /\ InFlight(t) /\ wr[t].pc = "batch"
  /\ LET b == wr[t].batch
     IN /\ idx' = (idx \ b.deletes) \cup b.puts
        /\ recs' = IF b.record = None
                   THEN [k \in DOMAIN recs \ {b.key} |-> recs[k]]
                   ELSE [k \in DOMAIN recs \cup {b.key} |->
                           IF k = b.key THEN b.record[1] ELSE recs[k]]
  /\ wr' = [wr EXCEPT ![t] = NotWriting]
  /\ hist' = ObserveWrite(t)
  /\ UNCHANGED <<reg, storeVars>>

\* upsert step 4 / delete when the store fails the batch: the call raises; in a
\* single-threaded run the state the batch was tried on is remembered
WriteBatchFails(t) ==
  /\ InFlight(t) /\ wr[t].pc = "batch"
  /\ idx' = IndexAfterFailedBatch(idx, wr[t].batch)
  /\ wr' = [wr EXCEPT ![t] =
              IF hist.concurrent
              THEN [pc |-> "failed", op |-> wr[t].op, key |-> wr[t].key,
                    prev |-> wr[t].prev, err |-> "StoreFailure",
                    before |-> Untracked]
              ELSE [pc |-> "failed", op |-> wr[t].op, key |-> wr[t].key,
                    prev |-> wr[t].prev, err |-> "StoreFailure",
                    batch |-> wr[t].batch,
                    before |-> [tracked |-> TRUE, recs |-> recs, idx |-> idx]]]
  /\ UNCHANGED <<recs, hist, reg, storeVars>>

\* the caller receives the error of the failed call
Raised(t) ==
  /\ InFlight(t) /\ wr[t].pc = "failed"
  /\ wr' = [wr EXCEPT ![t] = NotWriting]
  /\ UNCHANGED <<recs, idx, hist, reg, storeVars>>

\* rebuild(collection), first half: clear the entries of the registered paths
RebuildClear(t) ==
  /\ ~InFlight(t)
  /\ idx' = RebuildCleared(idx)
  /\ wr' = [wr EXCEPT ![t] = [pc |-> "rebuild", op |-> "rebuild",
                              key |-> Collection, record |-> None, prev |-> None]]
  /\ LET o == Observe(t, "rebuild", Collection, None)
     IN hist' = [o EXCEPT
                   !.unbuilt = ~o.concurrent,
                   !.last = IF Alone(t)
                            THEN [op |-> "rebuilding", recs |-> recs,
                                  once |-> IF hist.last.op = "rebuilt"
                                           THEN Some(hist.last.idx) ELSE None]
                            ELSE NoLast]
  /\ UNCHANGED <<recs, reg, storeVars>>

\* rebuild(collection), second half: scan the primary records and regenerate
\* the entries of every registered path
RebuildFill(t) ==
  /\ InFlight(t) /\ wr[t].pc = "rebuild"
  /\ idx' = idx \cup RebuildEntries
  /\ wr' = [wr EXCEPT ![t] = NotWriting]
  /\ hist' = [hist EXCEPT
                !.unbuilt = FALSE,
                !.pre = {},
                !.backfilled = ~hist.concurrent
                               /\ (hist.backfilled \/ hist.pre # {}),
                !.last = IF hist.last.op = "rebuilding"
                         THEN [op |-> "rebuilt", recs |-> hist.last.recs,
                               idx |-> idx \cup RebuildEntries,
                               once |-> hist.last.once]
                         ELSE NoLast]
  /\ UNCHANGED <<recs, reg, storeVars>>

\* --------------------------------------------------------- specifications
Init == StoreInit /\ IndexInit

\* The store and its readers.
Next ==
  \/ \E k \in Keys, v \in Values : Put(k, v)
  \/ \E k \in Keys : Delete(k)
  \/ \E a \in IterArgs : IterCall(a, {})
  \/ Return
  \/ \E n \in PageSizes, ck \in CursorKeys, kw \in PageArgs :
       PaginateCall(n, ck, kw, {})
  \/ PaginateNext({})
  \/ PaginateEnd

Spec == Init /\ [][Next]_vars

\* The same calls while the store fails to read the value of one stored key.
NextFault ==
  \/ \E k \in Keys, v \in Values : Put(k, v)
  \/ \E k \in Keys : Delete(k)
  \/ \E a \in IterArgs, f \in DOMAIN db : IterCall(a, {f})
  \/ Return
  \/ \E n \in PageSizes, kw \in PageArgs, f \in DOMAIN db :
       PaginateCall(n, None, kw, {f})
  \/ PaginateNext({})
  \/ PaginateEnd

SpecFault == Init /\ [][NextFault]_vars

\* The calls on single entries and the batches of one caller.
NextMap ==
  \/ \E k \in MapKeys, v \in MapValues : Put(k, v)
  \/ \E k \in MapKeys : Delete(k)
  \/ \E k \in MapKeys, d \in Defaults, m \in MissOutcomes : GetCall(k, d, m)
  \/ \E ks \in KeyLists : GetListCall(ks)
  \/ \E k \in MapKeys, e \in BOOLEAN, v \in {None} \cup {Some(x) : x \in MapValues},
        m \in MissOutcomes : KeyExistCall(k, <<e, v>>, m)
  \/ IterCall(FullScan, {})
  \/ Return
  \/ BatchNew
  \/ \E op \in BatchOps : BatchAdd(op)
  \/ BatchAbandon
  \/ Write

SpecMap == Init /\ [][NextMap]_vars

\* Every way of reading the store, between writes.
NextRead ==
  \/ \E k \in ReadKeys, v \in MapValues : Put(k, v)
  \/ \E k \in ReadKeys : Delete(k)
  \/ \E a \in IterArgs : IterCall(a, {})
  \/ \E kind \in ListKinds, a \in IterArgs, l \in Limits : ListCall(kind, a, l)
  \/ \E k \in ReadKeys, d \in Defaults, m \in MissOutcomes : GetCall(k, d, m)
  \/ \E k \in ReadKeys, e \in BOOLEAN, v \in {None} \cup {Some(x) : x \in MapValues},
        m \in MissOutcomes : KeyExistCall(k, <<e, v>>, m)
  \/ Return
  \/ \E n \in PageSizes, ck \in CursorKeys, kw \in PageArgs :
       PaginateCall(n, ck, kw, {})
  \/ PaginateNext({})
  \/ PaginateEnd

SpecRead == Init /\ [][NextRead]_vars

\* One iteration followed step by step, between writes.  list() advances the
\* generator until it is exhausted, so a loop step that can be taken is taken.
NextScan ==
  \/ \E k \in ScanKeys, v \in Values : Put(k, v)
  \/ \E k \in ScanKeys : Delete(k)
  \/ \E a \in IterArgs : ScanStart(a)
  \/ ScanStep
  \/ ScanReturn

SpecScan == Init /\ [][NextScan]_vars /\ WF_vars(ScanStep)

\* One forward pagination from its first page, with writes between its pages.
NextPaged ==
  \/ \E k \in PagedKeys, v \in Values : Put(k, v)
  \/ \E k \in PagedKeys : Delete(k)
  \/ Return
  \/ \E n \in PageSizes, kw \in ForwardPageArgs : PaginateCall(n, None, kw, {})
  \/ \E k \in PagedKeys, v \in Values : PutBetween(k, v)
  \/ \E k \in PagedKeys : DeleteBetween(k)
  \/ PaginateNext({})
  \/ PaginateEnd

SpecPaged == Init /\ [][NextPaged]_vars

\* The index maintainer under two callers.
NextIndex ==
  \/ \E t \in Writers, k \in PKeys, r \in Records : UpsertRead(t, k, r)
  \/ \E t \in Writers : UpsertDiff(t)
  \/ \E t \in Writers, k \in PKeys : DeleteRead(t, k)
  \/ \E t \in Writers : WriteBatch(t)
  \/ \E t \in Writers : WriteBatchFails(t)
  \/ \E t \in Writers : Raised(t)
  \/ \E t \in Writers : RegisterCollection(t)
  \/ \E t \in Writers, p \in AskedPaths : RegisterIndex(t, p)
  \/ \E t \in Writers, p \in AskedPaths : RegisterIndexRejected(t, p)
  \/ \E t \in Writers : RebuildClear(t)
  \/ \E t \in Writers : RebuildFill(t)

SpecIndex == Init /\ [][NextIndex]_vars

\* ================================================================= claims
\* What the claims speak of, stated on the store itself.
KeysOf(out) == {out[i][1] : i \in 1..Len(out)}

\* start <= k < end, an absent bound not constraining
InRange(k, start, end) ==
  /\ start = None \/ StrLe(start[1], k)
  /\ end = None \/ StrLt(k, end[1])

\* the key matches the prefix (an absent or empty prefix matches every key)
Matches(k, prefix) == prefix = None \/ StartsWith(k, prefix[1])

Ascending(out) == \A i \in 1..(Len(out) - 1) : StrLt(out[i][1], out[i + 1][1])

Descending(out) == \A i \in 1..(Len(out) - 1) : StrLt(out[i + 1][1], out[i][1])

\* every item is a stored key with its stored value
Stored(out) ==
  \A i \in 1..Len(out) : out[i][1] \in DOMAIN db /\ out[i][2] = db[out[i][1]]

IsIter == call # NoCall /\ call.op = "iter"

IsPage == pg # NoPages /\ pg.op = "paginate"

\* C2: forward iteration without a prefix yields exactly the stored keys k with
\* start <= k < end (an absent start: from the lowest key; an absent end: to the
\* highest), each once with its value, in ascending order; start >= end yields
\* nothing.
C2_ForwardHalfOpen ==
  (IsIter /\ ~call.a.reverse /\ call.a.prefix = None) =>
    /\ call.res.err = "none"
    /\ KeysOf(call.res.out) =
         {k \in DOMAIN db : InRange(k, call.a.start, call.a.end)}
    /\ Ascending(call.res.out)
    /\ Stored(call.res.out)
    /\ (call.a.start # None /\ call.a.end # None
        /\ StrLe(call.a.end[1], call.a.start[1])) => call.res.out = <<>>

\* a forward range whose two bounds are stored keys: the start is yielded, the
\* end is not
C2_Witness ==
  /\ IsIter /\ ~call.a.reverse /\ call.a.prefix = None
  /\ call.a.start # None /\ call.a.end # None
  /\ call.a.start[1] \in KeysOf(call.res.out)
  /\ call.a.end[1] \in DOMAIN db

\* C3: with start <= end (each possibly absent) and any prefix, reverse
\* iteration yields the same keys as forward iteration with the same arguments,
\* in strictly descending order.
C3_ReverseSameBounds ==
  (IsIter /\ call.a.reverse
   /\ (call.a.start = None \/ call.a.end = None
       \/ StrLe(call.a.start[1], call.a.end[1]))) =>
    LET fwd == Iter(db, [call.a EXCEPT !.reverse = FALSE], {})
    IN /\ call.res.err = fwd.err
       /\ KeysOf(call.res.out) = KeysOf(fwd.out)
       /\ Len(call.res.out) = Len(fwd.out)
       /\ Descending(call.res.out)
       /\ Stored(call.res.out)

\* a reverse scan with a prefix and an end bound that yields two keys while a
\* stored key lies outside
C3_Witness ==
  /\ IsIter /\ call.a.reverse
  /\ call.a.start = None /\ call.a.end # None
  /\ HasPrefix(call.a.prefix)
  /\ Len(call.res.out) = 2
  /\ Cardinality(DOMAIN db) > 2

\* C7: in reverse mode start > end is swapped: iter(start = b, end = a,
\* reverse) with a < b yields what iter(start = a, end = b, reverse) yields, the
\* keys k with a <= k < b in descending order; forward iteration never swaps
\* (start > end yields nothing).
C7_ReverseSwap ==
  (IsIter /\ call.a.prefix = None /\ call.a.start # None /\ call.a.end # None
   /\ StrLt(call.a.end[1], call.a.start[1])) =>
    IF call.a.reverse
    THEN /\ call.res =
              Iter(db, [call.a EXCEPT !.start = call.a.end, !.end = call.a.start], {})
         /\ KeysOf(call.res.out) =
              {k \in DOMAIN db : InRange(k, call.a.end, call.a.start)}
         /\ Descending(call.res.out)
    ELSE call.res = Ok(<<>>)

\* a reverse call with start > end that yields a key
C7_Witness ==
  /\ IsIter /\ call.a.reverse /\ call.a.prefix = None
  /\ call.a.start # None /\ call.a.end # None
  /\ StrLt(call.a.end[1], call.a.start[1])
  /\ Len(call.res.out) >= 2

\* C8: a scan by prefix alone (no start, no end) yields exactly the stored keys
\* that start with the prefix, each once, ascending forward and descending in
\* reverse; an absent or empty prefix yields every stored key.
C8_PrefixScan ==
  (IsIter /\ call.a.start = None /\ call.a.end = None) =>
    /\ call.res.err = "none"
    /\ KeysOf(call.res.out) = {k \in DOMAIN db : Matches(k, call.a.prefix)}
    /\ IF call.a.reverse THEN Descending(call.res.out) ELSE Ascending(call.res.out)
    /\ Stored(call.res.out)

\* The stored keys a pagination is to return: those matching its prefix.
PageMatching == {k \in DOMAIN db : Matches(k, pg.kw.prefix)}

\* C1: following next_cursor from a first call without cursor, with a non-empty
\* prefix, page_size >= 1 and no writes in between, forward pagination returns
\* every stored key matching the prefix exactly once, in ascending order, and
\* its last page has has_more = false and next_cursor None.
C1_ForwardPaginationComplete ==
  (IsPage /\ pg.first = None /\ ~pg.kw.reverse /\ HasPrefix(pg.kw.prefix)
   /\ pg.page_size >= 1) =>
    /\ pg.res.err = "none"
    /\ Ascending(pg.acc)
    /\ Stored(pg.acc)
    /\ KeysOf(pg.acc) \subseteq PageMatching
    /\ pg.res.has_more => Truthy(pg.res.next_cursor)
    /\ ~pg.res.has_more => (KeysOf(pg.acc) = PageMatching /\ pg.res.next_cursor = None)

\* C9: a forward page requested with the cursor of key k holds only keys greater
\* than k, and begins at the smallest matching stored key greater than k.
C9_ResumeStrictlyAfter ==
  (IsPage /\ ~pg.kw.reverse /\ pg.ckey # None /\ pg.pages >= 2
   /\ pg.res.err = "none") =>
    LET k == pg.ckey[1]
        later == {j \in PageMatching : StrLt(k, j)}
    IN /\ \A i \in 1..Len(pg.res.items) : StrLt(k, pg.res.items[i][1])
       /\ later # {} =>
            (pg.res.items # <<>> /\ pg.res.items[1][1] = MinKey(later))

LeftAfterPage ==
  LET from == PaginateStart(pg.cursor, pg.kw)
  IN {k \in PageMatching :
        InRange(k, from.start, from.end) /\ k \notin KeysOf(pg.res.items)}

\* C11: when further pages exist, next_cursor of a page is the encoding of the
\* key of the last item of the page (decoding it gives that key back); when no
\* further pages exist it is None.
C11_NextCursor ==
  (IsPage /\ pg.res.err = "none") =>
    IF LeftAfterPage # {}
    THEN /\ pg.res.items # <<>>
         /\ pg.res.next_cursor = Some(B64Encode(Utf8Encode(Last(pg.res.items)[1])))
         /\ Utf8Decode(B64Decode(pg.res.next_cursor[1])) = Last(pg.res.items)[1]
    ELSE pg.res.next_cursor = None

\* a full second page ending in a key of two code points, with a key left for
\* a third page
C11_Witness ==
  /\ IsPage /\ pg.res.err = "none" /\ pg.pages = 2
  /\ Len(pg.res.items) = pg.page_size
  /\ Len(Last(pg.res.items)[1]) = 2
  /\ pg.res.next_cursor # None
  /\ LeftAfterPage # {}

\* C12: with reverse = true and page_size >= 1, following next_cursor from a
\* first call without cursor returns every matching stored key exactly once, in
\* descending order, ending with has_more = false; no key of an earlier page
\* comes again.  (Stated for the prefixes whose upper bound iter can compute.)
C12_ReversePaginationComplete ==
  (IsPage /\ pg.first = None /\ pg.kw.reverse /\ pg.page_size >= 1
   /\ ~(HasPrefix(pg.kw.prefix) /\ PrefixEndRaises(pg.kw.prefix[1]))) =>
    /\ pg.res.err = "none"
    /\ Descending(pg.acc)
    /\ Stored(pg.acc)
    /\ KeysOf(pg.acc) \subseteq PageMatching
    /\ ~pg.res.has_more => KeysOf(pg.acc) = PageMatching

CeilDiv(n, d) == (n + d - 1) \div d

\* C13: a forward pagination of N >= 1 matching keys with page_size >= 1,
\* followed from a first call without cursor, ends (has_more = false) with call
\* number ceil(N / page_size) and not before, and no page of it is empty.
C13_NumberOfPages ==
  (IsPage /\ pg.first = None /\ ~pg.kw.reverse /\ PageMatching # {}
   /\ pg.page_size >= 1) =>
    LET pages == CeilDiv(Cardinality(PageMatching), pg.page_size)
    IN /\ pg.res.err = "none"
       /\ pg.res.items # <<>>
       /\ IF pg.res.has_more THEN pg.pages < pages ELSE pg.pages = pages

\* the value stored at a key, None when the key is not stored
ValueAt(store, k) == IF k \in DOMAIN store THEN Some(store[k]) ELSE None

IsCall(op) == call # NoCall /\ call.op = op

\* C14: key_exist(k) returns (True, v) exactly when k is stored with value v and
\* (False, None) exactly when k is not stored, whatever key_may_exist answers.
C14_KeyExist ==
  IsCall("key_exist") =>
    call.res = IF call.key \in DOMAIN db
               THEN <<TRUE, Some(db[call.key])>>
               ELSE <<FALSE, None>>

\* C15: get(k, default) of a key that is not stored returns the default (None
\* when none is given) without an error, get of a list of keys returns one
\* result per key in order with None for each key that is not stored, and the
\* store is as it was before the call.
C15_GetAbsent ==
  /\ IsCall("get") =>
       /\ call.res = Ok(IF call.key \in DOMAIN db THEN Some(db[call.key])
                        ELSE call.default)
       /\ db = call.before
  /\ IsCall("getlist") =>
       /\ call.res.err = "none"
       /\ Len(call.res.out) = Len(call.keys)
       /\ \A i \in 1..Len(call.keys) : call.res.out[i] = ValueAt(db, call.keys[i])
       /\ db = call.before

\* a get with a default of a key that is not stored, in a store that holds
\* another key, where Rdict.get raises KeyError
C15_Witness ==
  /\ IsCall("get")
  /\ call.key \notin DOMAIN db /\ db # <<>>
  /\ call.default # None /\ call.miss = "KeyError"
  /\ call.res.out = call.default

\* C16: the store is a map: after put(k, v), get(k) returns v and get of every
\* other key returns what it returned before; after delete(k), get(k) returns
\* None and get of every other key returns what it returned before.
C16_MapSemantics ==
  /\ IsCall("put") =>
       \A k \in Keys, m \in MissOutcomes :
         Get(db, k, None, m) =
           Ok(IF k = call.key THEN Some(call.value) ELSE ValueAt(call.before, k))
  /\ IsCall("delete") =>
       \A k \in Keys, m \in MissOutcomes :
         Get(db, k, None, m) =
           Ok(IF k = call.key THEN None ELSE ValueAt(call.before, k))

\* a put over a stored key with a different value while another key is stored
C16_Witness ==
  /\ IsCall("put")
  /\ call.key \in DOMAIN call.before
  /\ call.before[call.key] # call.value
  /\ DOMAIN db # {call.key}

\* the operations of a batch that touch key k
Touching(ops, k) == {i \in 1..Len(ops) : ops[i][2] = k}

LastTouching(ops, k) ==
  CHOOSE i \in Touching(ops, k) : \A j \in Touching(ops, k) : j <= i

\* C17: write(batch) is one step that applies the whole batch in the order the
\* operations were added: for each key the batch touches the last operation on
\* it decides (its put value, or absent after a delete), and every other key is
\* as before.  The store passes from the state before the call to this one in
\* the single step of the call.
C17_BatchAtomic ==
  IsCall("write") =>
    \A k \in Keys :
      ValueAt(db, k) =
        IF Touching(call.ops, k) = {} THEN ValueAt(call.before, k)
        ELSE LET op == call.ops[LastTouching(call.ops, k)]
             IN IF op[1] = "put" THEN Some(op[3]) ELSE None

\* a written batch that put a key and then deleted it, after putting another
\* key: the first is absent, the second stored
C17_Witness ==
  /\ IsCall("write") /\ Len(call.ops) >= 2
  /\ \E i, j \in 1..Len(call.ops) :
       /\ i < j
       /\ call.ops[i][1] = "put" /\ call.ops[j][1] = "delete"
       /\ call.ops[i][2] = call.ops[j][2]
       /\ call.ops[j][2] \in DOMAIN call.before
       /\ call.ops[j][2] \notin DOMAIN db

\* C18: while a batch is being built the store is what it was when the batch
\* was created, and so is what get and iter return; when the batch is abandoned
\* before write, every key keeps the value it had before the batch was built.
C18_BatchNoEffectBeforeWrite ==
  /\ wb # NoBatch =>
       /\ db = wb.base
       /\ IsCall("get") =>
            call.res = Get(wb.base, call.key, call.default, call.miss)
       /\ IsCall("iter") => call.res = Iter(wb.base, call.a, {})
  /\ IsCall("abandon") => db = call.before

\* an abandoned batch that held a put of a stored key with another value and a
\* delete of a stored key
C18_Witness ==
  /\ IsCall("abandon") /\ Len(call.ops) = 2
  /\ call.ops[1][1] = "put" /\ call.ops[1][2] \in DOMAIN call.before
  /\ call.before[call.ops[1][2]] # call.ops[1][3]
  /\ call.ops[2][1] = "delete" /\ call.ops[2][2] \in DOMAIN call.before
  /\ call.ops[2][2] # call.ops[1][2]

\* each stored record has exactly one index entry per registered path, the one
\* of its current value, and no index entry exists for anything else
IndexInvariant ==
  /\ \A k \in DOMAIN recs : \A p \in reg :
       {e \in idx : e[3] = p /\ e[5] = k}
         = {IndexKey(p, Extract(recs[k], k, p), k)}
  /\ \A e \in idx :
       /\ e[5] \in DOMAIN recs
       /\ e[3] \in reg
       /\ e = IndexKey(e[3], Extract(recs[e[5]], e[5], e[3]), e[5])

\* C4: in a single-threaded run of upserts and deletes, each stored record has
\* exactly one index entry per registered path, the one of its current value,
\* and no index entry exists for anything else.  (A path registered after
\* records were written counts once rebuild has run.)
C4_IndexInvariant == (~hist.concurrent /\ ~hist.unbuilt) => IndexInvariant

\* a record was upserted over another with a different email, and a record was
\* deleted, all single-threaded
C4_Witness ==
  /\ ~hist.concurrent
  /\ \A t \in Writers : ~InFlight(t)
  /\ hist.replaced /\ hist.removed
  /\ recs # <<>>
  /\ "email" \in reg /\ ~hist.unbuilt

\* an index entry whose value the record stored at its key does not have
StaleEntry ==
  \E e \in idx :
    e[5] \notin DOMAIN recs
    \/ e # IndexKey(e[3], Extract(recs[e[5]], e[5], e[3]), e[5])

\* C5: a stale index entry arises only when calls on one primary key overlap:
\* with the calls on each key serialized, no index entry remains for a value
\* the stored record does not have.
C5_StaleOnlyWhenRaced == StaleEntry => hist.raced

\* two upserts on one key read the same previous record, both wrote, and an
\* index entry of the overwritten value remains
C5_Witness ==
  /\ hist.raced /\ hist.samePrev
  /\ \A t \in Writers : ~InFlight(t)
  /\ \E e \in idx :
       /\ e[5] \in DOMAIN recs
       /\ e # IndexKey(e[3], Extract(recs[e[5]], e[5], e[3]), e[5])

\* C19: when the batch of an upsert fails, the primary records and the index
\* entries are those the batch was tried on, and the index invariant still
\* holds.
C19_UpsertAtomicOnFailure ==
  \A t \in Writers :
    (wr[t].pc = "failed" /\ wr[t].op = "upsert" /\ ~hist.concurrent) =>
      /\ wr[t].before.tracked
      /\ recs = wr[t].before.recs
      /\ idx = wr[t].before.idx
      /\ ~hist.unbuilt => IndexInvariant

\* the failed batch of an upsert that changes the email of a stored record: it
\* held a delete of the old entry, a put of the new one and the record
C19_Witness ==
  \E t \in Writers :
    /\ wr[t].pc = "failed" /\ wr[t].op = "upsert" /\ ~hist.concurrent
    /\ wr[t].prev # None
    /\ wr[t].batch.deletes # {} /\ wr[t].batch.deletes \subseteq idx
    /\ wr[t].batch.puts \ idx # {}

\* the values a lookup on a path asks for
IndexValues(p) ==
  IF p = "#" THEN {Some(k) : k \in PKeys}
  ELSE {None, Some("bob@example.com"), Some("alice@example.com")}

\* C20: in a single-threaded run, a record upserted before register_index(C, P)
\* is returned by no lookup on (C, P) until rebuild(C) has run; after
\* rebuild(C) a lookup on (C, P) returns exactly the stored records whose value
\* at P is the value asked for.
C20_RegisterDoesNotIndex ==
  ~hist.concurrent =>
    /\ \A x \in hist.pre : \A v \in IndexValues(x[2]) :
         x[1] \notin {r[1] : r \in Lookup(x[2], v)}
    /\ (hist.backfilled /\ ~hist.unbuilt) =>
         \A p \in reg : \A v \in IndexValues(p) :
           Lookup(p, v) =
             {<<k, Some(recs[k])>> : k \in {j \in DOMAIN recs :
                                              Extract(recs[j], j, p) = v}}

\* after a rebuild that followed the registration of "email" over two stored
\* records, the lookup of an email returns the one record that has it
C20_Witness ==
  /\ ~hist.concurrent /\ hist.backfilled /\ ~hist.unbuilt
  /\ "email" \in reg
  /\ Cardinality(DOMAIN recs) = 2
  /\ Cardinality(Lookup("email", Some("bob@example.com"))) = 1
  /\ Cardinality(Lookup("email", None)) = 1
  /\ \A t \in Writers : ~InFlight(t)

\* C6: a failure of the store while iter reads an entry reaches the caller as
\* an error: whenever the iteration comes to an entry whose value cannot be
\* read, the call (iter, and paginate through items) raises instead of
\* ending as if the data were exhausted.
C6_ReadFailurePropagates ==
  /\ (IsIter /\ KeysOf(Iter(db, call.a, {}).out) \cap call.fail # {})
       => call.res.err = "StoreFailure"
  /\ (IsPage /\ pg.pages = 1
      /\ KeysOf(Items(db, PaginateStart(pg.cursor, pg.kw),
                      Some(pg.page_size + 1), {}).out) \cap pg.fail # {})
       => pg.res.err = "StoreFailure"

\* C24: for a prefix whose last character is the highest code point, deriving
\* the upper bound does not fail: iter(prefix = p) falls back to no upper bound
\* and yields exactly the stored keys that start with p.
C24_MaxPrefixFallback ==
  (IsIter /\ HasPrefix(call.a.prefix) /\ PrefixEndRaises(call.a.prefix[1])
   /\ call.a.start = None /\ call.a.end = None) =>
    /\ call.res.err = "none"
    /\ KeysOf(call.res.out) = {k \in DOMAIN db : Matches(k, call.a.prefix)}

\* C28: with a non-empty prefix p and bounds start <= end (each possibly
\* absent, each possibly outside the range of p), iter yields exactly the
\* stored keys k that start with p and have start <= k < end, each once with
\* its value, ascending forward and descending in reverse.
C28_PrefixWithBounds ==
  (IsIter /\ HasPrefix(call.a.prefix)
   /\ (call.a.start = None \/ call.a.end = None
       \/ StrLe(call.a.start[1], call.a.end[1]))) =>
    /\ call.res.err = "none"
    /\ KeysOf(call.res.out) =
         {k \in DOMAIN db : /\ Matches(k, call.a.prefix)
                            /\ InRange(k, call.a.start, call.a.end)}
    /\ IF call.a.reverse THEN Descending(call.res.out) ELSE Ascending(call.res.out)
    /\ Stored(call.res.out)

\* C30: in every result of paginate, for every page_size >= 0, has_more is true
\* exactly when next_cursor is non-empty.
C30_HasMoreIffNextCursor ==
  (IsPage /\ pg.res.err = "none") =>
    (pg.res.has_more <=> Truthy(pg.res.next_cursor))

\* the calls that only read
ReadOps == {"iter", "items", "keys", "values", "get", "getlist", "key_exist"}

C27_LimitAndProjections ==
  /\ (IsCall("items") /\ call.limit # None
      /\ Iter(db, call.a, {}).err = "none") =>
       LET all == Iter(db, call.a, {}).out
       IN call.res = Ok(Take(all, Min(call.limit[1], Len(all))))
  /\ IsCall("keys") =>
       LET its == Items(db, call.a, call.limit, {})
       IN /\ call.res.err = its.err
          /\ Len(call.res.out) = Len(its.out)
          /\ \A i \in 1..Len(its.out) : call.res.out[i] = its.out[i][1]
  /\ IsCall("values") =>
       LET its == Items(db, call.a, call.limit, {})
       IN /\ call.res.err = its.err
          /\ Len(call.res.out) = Len(its.out)
          /\ \A i \in 1..Len(its.out) : call.res.out[i] = its.out[i][2]

\* values(reverse, limit = 2) over three stored keys with two different values
\* among the two returned
C27_Witness ==
  /\ IsCall("values") /\ call.a.reverse /\ call.limit = Some(2)
  /\ Cardinality(DOMAIN db) = 3
  /\ Len(call.res.out) = 2 /\ call.res.out[1] # call.res.out[2]

IsScan == call # NoCall /\ call.op = "scan"

\* C26: every iteration ends, for any finite store and any prefix, start, end
\* and reverse: a started iteration comes to its end, each loop step either
\* stops or moves the iterator exactly one entry further in the scan direction,
\* the iterator moves at most once per stored entry, and the items handed out
\* are those items, keys, values and paginate build their results from.
C26_IterTerminates ==
  /\ (IsScan ~> (IsScan /\ call.done))
  /\ [][(IsScan /\ ~call.done /\ call' # NoCall /\ call'.op = "scan") =>
         \/ call'.done /\ call'.pos = call.pos
         \/ call'.pos = IF call.a.reverse THEN call.pos - 1 ELSE call.pos + 1]_vars
  /\ [](IsScan => call.steps <= Cardinality(DOMAIN db))
  /\ []((IsScan /\ call.done) =>
         [err |-> call.err, out |-> call.out] = Iter(db, call.a, {}))

\* a reverse iteration by prefix and start that passed over one entry, yielded
\* one and stopped at a third
C26_Witness ==
  /\ IsScan /\ call.done /\ call.a.reverse
  /\ HasPrefix(call.a.prefix) /\ call.a.start # None
  /\ Cardinality(DOMAIN db) = 3
  /\ call.steps = 2 /\ Len(call.out) = 1
  /\ Valid(SortedKeys(DOMAIN db), call.pos)

\* C29: with writes between the page requests of one forward pagination, the
\* keys returned across its pages are strictly increasing, every matching key
\* stored during the whole pagination is returned by the time it ends, and a
\* page asked with the cursor of key k begins at the smallest matching key
\* greater than k stored at that time, also when k itself was deleted since.
C29_PaginationUnderWrites ==
  (IsPage /\ pg.first = None /\ ~pg.kw.reverse) =>
    /\ pg.res.err = "none"
    /\ Ascending(pg.acc)
    /\ ~pg.res.has_more =>
         {k \in pg.kept : Matches(k, pg.kw.prefix)} \subseteq KeysOf(pg.acc)
    /\ (pg.pages >= 2 /\ pg.ckey # None) =>
         LET later == {j \in DOMAIN pg.before :
                         Matches(j, pg.kw.prefix) /\ StrLt(pg.ckey[1], j)}
         IN later # {} =>
              (pg.res.items # <<>> /\ pg.res.items[1][1] = MinKey(later))

\* C21: with no other writer at work, rebuild(C) run twice in a row leaves the
\* index entries the first run left, and rebuild leaves the primary records as
\* they were.
C21_RebuildIdempotent ==
  hist.last.op = "rebuilt" =>
    /\ recs = hist.last.recs
    /\ idx = hist.last.idx
    /\ hist.last.once # None => idx = hist.last.once[1]

\* a second rebuild in a row, over stored records with both paths registered,
\* after calls that overlapped
C21_Witness ==
  /\ hist.last.op = "rebuilt" /\ hist.last.once # None
  /\ recs # <<>> /\ "email" \in reg
  /\ hist.raced

\* C22: a delete, through the index maintainer, of a key that holds no record
\* raises no error and changes nothing: the primary records and the index
\* entries after the call are those before it.
C22_DeleteAbsentIsNoOp ==
  /\ \A t \in Writers : wr[t].pc = "failed" => wr[t].err = "StoreFailure"
  /\ hist.last.op = "deleted" =>
       /\ recs = hist.last.recs
       /\ idx = hist.last.idx

\* the delete of a key holding no record has completed while another key holds
\* a record with its index entries
C22_Witness ==
  /\ hist.last.op = "deleted"
  /\ hist.last.key \notin DOMAIN recs
  /\ recs # <<>> /\ idx # {}
  /\ \A t \in Writers : ~InFlight(t)

\* C23: the field_paths of the collection always contain "#"; register_collection
\* keeps them and a register_index adds its path and nothing else, so
\* field_paths are "#" and the distinct paths registered; registering a
\* registered path changes nothing; a register_index rejected for an invalid
\* field leaves field_paths unchanged.
C23_Registry ==
  /\ "#" \in reg
  /\ reg \subseteq {p \in AskedPaths : ValidField(p)}
  /\ hist.last.op = "collection" => reg = hist.last.reg
  /\ hist.last.op = "registered" =>
       /\ reg = hist.last.reg \cup {hist.last.path}
       /\ hist.last.path \in hist.last.reg => reg = hist.last.reg
  /\ hist.last.op = "rejected" => reg = hist.last.reg

\* the registration of "sex" was rejected after "email" had been registered
C23_Witness ==
  /\ hist.last.op = "rejected" /\ hist.last.path = "sex"
  /\ reg = {"#", "email"}

====
